---- MODULE Spec2Model ----
(***************************************************************************)
(* gradient_boosting.ipynb: the notebook run top to bottom.  The cells     *)
(* load the tables, partition the columns by dtype, build and fit the      *)
(* boosted-tree pipeline, predict and write a submission, load two         *)
(* pickled classifiers, build a soft-voting ensemble, predict and write a  *)
(* second submission.  Library calls (pandas, scikit-learn) are modelled   *)
(* by what they do for the arguments the notebook passes.                  *)
(***************************************************************************)
EXTENDS Integers, Sequences, FiniteSets, TLC

\* ------------------------------------------------------------- bounds
NCols == 3      \* columns of train_x.csv / test_x.csv
NTest == 2      \* rows of test_x.csv
NRows == 2      \* rows of a column given to the ordinal encoder
Unit == 4       \* a probability k/Unit is the integer k

\* ------------------------------------------------------------- data
DTypes == {"object", "float64", "int64", "bool"}
\* include=['number', 'bool']
NumberOrBoolDTypes == {"float64", "int64", "bool"}
NumberDTypes == {"float64", "int64"}
ObjectDTypes == {"object"}

AllNames == <<"basin", "id", "funder", "permit", "gps_height", "region">>
ColumnNames == SubSeq(AllNames, 1, NCols)

\* class labels in sorted order (LabelEncoder.classes_ is np.unique(y))
AllClasses == <<"functional", "functional needs repair", "non functional">>
\* the labels that occur in train_y.csv in the runs of the whole notebook
TrainLabels == <<"functional", "non functional">>

HgbcPath == "./output/hgbc_1_submission.csv"

\* the second to_csv given the first one's path
EnsemblePathCopied == HgbcPath
EnsemblePath == "./output/clf_ensemble_1_submission.csv"
OutputPaths == {HgbcPath, EnsemblePath}

Absent == [columns |-> <<>>, rows |-> <<>>, exists |-> FALSE]
NoTable == [columns |-> <<>>, dtypes |-> <<>>, id |-> <<>>]

Range(s) == {s[i] : i \in DOMAIN s}
Injective(s) == \A i, j \in DOMAIN s : s[i] = s[j] => i = j

VARIABLES
  pc,                    \* the statement group to run next, "done" or "failed"
  stages,                \* the statement groups completed so far, in order
  train_X, test_X,       \* the tables read by pd.read_csv
  categorical_cols, numeric_cols,
  categorical_cols_idx,
  preprocessor_hgbc,     \* the ColumnTransformer: its parameters and fitted state
  train_matrix,          \* column layout of preprocessor.fit_transform(train_X)
  test_matrix,           \* column layout of preprocessor.transform(test_X)
  fitted,                \* the estimators that have been fitted
  clf_hgbc_test,         \* clf_hgbc.predict(test_X)
  models_clf_rf,         \* keys of the unpickled dict
  ensemble_1,            \* names of the VotingClassifier's estimators
  clf_ensemble_1_test,   \* ensemble_1.predict(test_X)
  files                  \* the two output paths on disk

wfvars == <<pc, stages, train_X, test_X, categorical_cols, numeric_cols,
            categorical_cols_idx, preprocessor_hgbc, train_matrix, test_matrix,
            fitted, clf_hgbc_test, models_clf_rf, ensemble_1, clf_ensemble_1_test,
            files>>

\* ------------------------------------------------------------- pandas
\* df.select_dtypes(include=...).columns.tolist(): the names of the columns
\* whose dtype is included, in the table's column order.
RECURSIVE SelectFrom(_, _, _)
SelectFrom(df, include, i) ==
  IF i > Len(df.columns) THEN <<>>
  ELSE (IF df.dtypes[i] \in include THEN <<df.columns[i]>> ELSE <<>>)
       \o SelectFrom(df, include, i + 1)

select_dtypes(df, include) == SelectFrom(df, include, 1)

\* ------------------------------------------------------------- scikit-learn
\* ColumnTransformer(transformers=[('cat', .., cat), ('num', .., num)],
\*                   remainder=remainder), not yet fitted.
ColumnTransformer(cat, num, remainder) ==
  [cat |-> cat, num |-> num, remainder |-> remainder, remainder_cols |-> <<>>]

\* ColumnTransformer.fit: the remainder is every column of the fitted table
\* that no transformer names, in the table's column order.
RECURSIVE RemainderFrom(_, _, _)
RemainderFrom(df, named, i) ==
  IF i > Len(df.columns) THEN <<>>
  ELSE (IF df.columns[i] \in named THEN <<>> ELSE <<df.columns[i]>>)
       \o RemainderFrom(df, named, i + 1)

FitColumnTransformer(pre, df) ==
  [pre EXCEPT !.remainder_cols = RemainderFrom(df, Range(pre.cat) \cup Range(pre.num), 1)]

DTypeOf(df, name) == df.dtypes[CHOOSE i \in DOMAIN df.columns : df.columns[i] = name]

Block(df, names, block) ==
  [i \in 1..Len(names) |->
     [name |-> names[i], block |-> block, dtype |-> DTypeOf(df, names[i])]]

\* remainder left at its default 'drop'
TransformLayoutDrop(pre, df) ==
  Block(df, pre.cat, "cat") \o Block(df, pre.num, "num")

\* the column lists taken again from the table being transformed
TransformLayoutRepartition(pre, df) ==
  LET cat == select_dtypes(df, ObjectDTypes)
      num == select_dtypes(df, NumberDTypes)
  IN Block(df, cat, "cat") \o Block(df, num, "num")
       \o Block(df, RemainderFrom(df, Range(cat) \cup Range(num), 1), "remainder")

\* ColumnTransformer.transform: the outputs of the transformers are stacked
\* side by side in the order the transformers are listed, the remainder last;
\* each transformer takes its columns from the table by name.
TransformLayout(pre, df) ==
  Block(df, pre.cat, "cat") \o Block(df, pre.num, "num")
    \o (IF pre.remainder = "passthrough"
        THEN Block(df, pre.remainder_cols, "remainder") ELSE <<>>)

\* the positions the categorical columns have in train_X
OriginalPositions(cols) ==
  [i \in 1..Len(cols) |->
     (CHOOSE k \in DOMAIN train_X.columns : train_X.columns[k] = cols[i]) - 1]

\* [_ for _ in range(len(categorical_cols))]
CategoricalColsIdx(cols) == [i \in 1..Len(cols) |-> i - 1]

\* pd.DataFrame({'id': ids, 'status_group': preds}, columns=['id', 'status_group'])
DataFrame(ids, preds) ==
  [columns |-> <<"id", "status_group">>,
   rows |-> [i \in 1..Len(ids) |-> <<ids[i], preds[i]>>]]

\* DataFrame.to_csv(path, index=index): the header line and one line per row,
\* led by the row's index label when index is True.
to_csv(df, index) ==
  [columns |-> IF index THEN <<"">> \o df.columns ELSE df.columns,
   rows |-> [i \in 1..Len(df.rows) |->
               IF index THEN <<i - 1>> \o df.rows[i] ELSE df.rows[i]],
   exists |-> TRUE]

\* to_csv with index left at its default True
SubmissionCsvIndexed(ids, preds) == to_csv(DataFrame(ids, preds), TRUE)

SubmissionCsv(ids, preds) == to_csv(DataFrame(ids, preds), FALSE)

\* ------------------------------------------------------------- soft voting
\* VotingClassifier(estimators=[clf_lr, clf_rf, clf_hgbc], voting='soft',
\*                  weights=[1.0, 1.0, 1.0])
Estimators == <<"clf_lr", "clf_rf", "clf_hgbc">>
Weights == <<1, 1, 1>>

\* a predict_proba row over n classes: n integers that sum to Unit
RECURSIVE WeightedSum(_, _, _, _)
WeightedSum(P, w, c, m) ==
  IF m > Len(P) THEN 0 ELSE w[m] * P[m][c] + WeightedSum(P, w, c, m + 1)

RECURSIVE SumSeq(_, _)
SumSeq(w, m) == IF m > Len(w) THEN 0 ELSE w[m] + SumSeq(w, m + 1)

ProbaRows(n) == {p \in [1..n -> 0..Unit] : SumSeq(p, 1) = Unit}

\* np.average(probas, axis=0, weights=w): per class, the weighted sum of the
\* members' probabilities over the sum of the weights (kept as a fraction)
Average(P, w, n) ==
  [c \in 1..n |-> [num |-> WeightedSum(P, w, c, 1), den |-> SumSeq(w, 1)]]

\* a scan that keeps the last maximum
RECURSIVE ArgMaxLast(_, _, _)
ArgMaxLast(avg, i, best) ==
  IF i > Len(avg) THEN best
  ELSE ArgMaxLast(avg, i + 1, IF avg[i].num >= avg[best].num THEN i ELSE best)

\* np.argmax: a left-to-right scan that keeps the first maximum
RECURSIVE ArgMaxScan(_, _, _)
ArgMaxScan(avg, i, best) ==
  IF i > Len(avg) THEN best
  ELSE ArgMaxScan(avg, i + 1, IF avg[i].num > avg[best].num THEN i ELSE best)

\* VotingClassifier.predict for one row: le_.inverse_transform(argmax(average))
VotePredict(P, w, classes) ==
  classes[ArgMaxScan(Average(P, w, Len(classes)), 2, 1)]

MemberProbas(n) == [1..Len(Estimators) -> ProbaRows(n)]

\* the labels soft voting can give a row of the inference table
VotableLabels ==
  {VotePredict(P, Weights, TrainLabels) : P \in MemberProbas(Len(TrainLabels))}

\* ------------------------------------------------------------- ordinal encoder
\* category strings in sorted order
Lex == <<"dam", "lake", "river">>
NaN == <<"nan", 0>>
Raise == <<"raise", 0>>

\* OrdinalEncoder.fit: categories_ = np.unique(column), the distinct values sorted
RECURSIVE UniqueFrom(_, _)
UniqueFrom(col, i) ==
  IF i > Len(Lex) THEN <<>>
  ELSE (IF Lex[i] \in Range(col) THEN <<Lex[i]>> ELSE <<>>) \o UniqueFrom(col, i + 1)

FitCategories(col) == UniqueFrom(col, 1)

\* OrdinalEncoder(handle_unknown=.., unknown_value=..).transform of one cell:
\* the position of the value in categories_, unknown_value for a value that
\* is not there, or an error under handle_unknown='error'
EncodeCell(cats, v, handle_unknown, unknown_value) ==
  IF v \in Range(cats)
  THEN <<"code", (CHOOSE k \in DOMAIN cats : cats[k] = v) - 1>>
  ELSE IF handle_unknown = "use_encoded_value" THEN unknown_value ELSE Raise

\* OrdinalEncoder() with handle_unknown left at its default 'error'
categorical_transformer_default(cats, col) ==
  [i \in 1..Len(col) |-> EncodeCell(cats, col[i], "error", NaN)]

\* categorical_transformer_hgbc =
\*   OrdinalEncoder(handle_unknown='use_encoded_value', unknown_value=np.nan)
categorical_transformer_hgbc(cats, col) ==
  [i \in 1..Len(col) |-> EncodeCell(cats, col[i], "use_encoded_value", NaN)]

\* ------------------------------------------------------------- the notebook
VARIABLES
  enc_pc,                \* encoder run: "fit", "transform", "done" or "failed"
  enc_train, enc_test,   \* one categorical column of train_X and of test_X
  categories_,           \* the fitted encoder's categories
  enc_train_out, enc_test_out,
  vote_pc,               \* voting run: "predict" or "done"
  probas,                \* the members' predict_proba for one row
  y_pred                 \* the ensemble's label for that row

encvars == <<enc_pc, enc_train, enc_test, categories_, enc_train_out, enc_test_out>>
votevars == <<vote_pc, probas, y_pred>>
vars == <<wfvars, encvars, votevars>>

\* the cell order with the first submission written after the ensemble cells
StageOrderWriteLate ==
  <<"load", "partition", "build", "fit", "predict", "confusion",
    "load_models", "create_ensemble", "fit_ensemble", "predict_ensemble",
    "write", "write_ensemble">>

\* the statement groups of the notebook in cell order
StageOrder ==
  <<"load", "partition", "build", "fit", "predict", "write", "confusion",
    "load_models", "create_ensemble", "fit_ensemble", "predict_ensemble",
    "write_ensemble">>

\* the statement groups that call into the file system or the library's
\* fit/predict and so can raise
Fallible ==
  {"load", "fit", "predict", "write", "confusion", "load_models",
   "fit_ensemble", "predict_ensemble", "write_ensemble"}

After(stage) ==
  LET i == CHOOSE k \in DOMAIN StageOrder : StageOrder[k] = stage
  IN IF i = Len(StageOrder) THEN "done" ELSE StageOrder[i + 1]

Advance(stage) ==
  /\ pc = stage
  /\ pc' = After(stage)
  /\ stages' = Append(stages, stage)

IdleEncoder ==
  /\ enc_pc = "idle" /\ enc_train = <<>> /\ enc_test = <<>> /\ categories_ = <<>>
  /\ enc_train_out = <<>> /\ enc_test_out = <<>>

IdleVote == vote_pc = "idle" /\ probas = <<>> /\ y_pred = ""

IdleNotebook ==
  /\ stages = <<>>
  /\ train_X = NoTable /\ test_X = NoTable
  /\ categorical_cols = <<>> /\ numeric_cols = <<>>
  /\ categorical_cols_idx = <<>>
  /\ preprocessor_hgbc = ColumnTransformer(<<>>, <<>>, "drop")
  /\ train_matrix = <<>> /\ test_matrix = <<>>
  /\ fitted = {}
  /\ clf_hgbc_test = <<>>
  /\ models_clf_rf = {}
  /\ ensemble_1 = [estimators |-> <<>>, voting |-> "", weights |-> <<>>]
  /\ clf_ensemble_1_test = <<>>
  /\ files = [f \in OutputPaths |-> Absent]

Init == pc = "load" /\ IdleNotebook /\ IdleEncoder /\ IdleVote

\* the dtypes pd.read_csv can infer for the columns: the id column holds
\* integers, every other column any dtype
Schemas ==
  {d \in [1..NCols -> DTypes] :
     \A i \in 1..NCols : ColumnNames[i] = "id" => d[i] = "int64"}

\* test_x.csv has train_x.csv's columns; at most one of them is inferred
\* with another dtype
TestSchemas(d) ==
  {e \in Schemas : Cardinality({i \in 1..NCols : e[i] # d[i]}) <= 1}

IdVectors == {ids \in [1..NTest -> 1..NTest] : Injective(ids)}

\* lines 91-96: the three pd.read_csv calls
LoadData ==
  /\ Advance("load")
  /\ \E d \in Schemas :
       \E e \in TestSchemas(d), ids \in IdVectors :
         /\ train_X' = [columns |-> ColumnNames, dtypes |-> d, id |-> <<>>]
         /\ test_X' = [columns |-> ColumnNames, dtypes |-> e, id |-> ids]
  /\ UNCHANGED <<categorical_cols, numeric_cols, categorical_cols_idx,
                 preprocessor_hgbc, train_matrix, test_matrix, fitted,
                 clf_hgbc_test, models_clf_rf, ensemble_1, clf_ensemble_1_test,
                 files, encvars, votevars>>

\* lines 99-101: the column lists by dtype
Partition ==
  /\ Advance("partition")
  /\ categorical_cols' = select_dtypes(train_X, ObjectDTypes)
  /\ numeric_cols' = select_dtypes(train_X, NumberDTypes)
  /\ UNCHANGED <<train_X, test_X, categorical_cols_idx,
                 preprocessor_hgbc, train_matrix, test_matrix, fitted,
                 clf_hgbc_test, models_clf_rf, ensemble_1, clf_ensemble_1_test,
                 files, encvars, votevars>>

\* lines 121-140: the transformers, the ColumnTransformer, the index list and
\* the pipeline
BuildPipeline ==
  /\ Advance("build")
  /\ preprocessor_hgbc' = ColumnTransformer(categorical_cols, numeric_cols, "passthrough")
  /\ categorical_cols_idx' = CategoricalColsIdx(categorical_cols)
  /\ UNCHANGED <<train_X, test_X, categorical_cols, numeric_cols,
                 train_matrix, test_matrix, fitted,
                 clf_hgbc_test, models_clf_rf, ensemble_1, clf_ensemble_1_test,
                 files, encvars, votevars>>

\* lines 143-144: clf_hgbc.fit(train_X, train_y) and the training score
FitHgbc ==
  /\ Advance("fit")
  /\ preprocessor_hgbc' = FitColumnTransformer(preprocessor_hgbc, train_X)
  /\ train_matrix' = TransformLayout(preprocessor_hgbc', train_X)
  /\ fitted' = fitted \cup {"clf_hgbc"}
  /\ UNCHANGED <<train_X, test_X, categorical_cols, numeric_cols,
                 categorical_cols_idx, test_matrix,
                 clf_hgbc_test, models_clf_rf, ensemble_1, clf_ensemble_1_test,
                 files, encvars, votevars>>

\* line 147: clf_hgbc.predict(test_X); an estimator that is not fitted raises
PredictHgbc ==
  /\ pc = "predict"
  /\ "clf_hgbc" \in fitted
  /\ Advance("predict")
  /\ test_matrix' = TransformLayout(preprocessor_hgbc, test_X)
  /\ clf_hgbc_test' \in [1..Len(test_X.id) -> Range(TrainLabels)]
  /\ UNCHANGED <<train_X, test_X, categorical_cols, numeric_cols,
                 categorical_cols_idx, preprocessor_hgbc, train_matrix, fitted,
                 models_clf_rf, ensemble_1, clf_ensemble_1_test,
                 files, encvars, votevars>>

\* lines 150-154: the first submission
WriteHgbc ==
  /\ pc = "write"
  /\ Len(clf_hgbc_test) = Len(test_X.id)
  /\ Advance("write")
  /\ files' = [files EXCEPT ![HgbcPath] = SubmissionCsv(test_X.id, clf_hgbc_test)]
  /\ UNCHANGED <<train_X, test_X, categorical_cols, numeric_cols,
                 categorical_cols_idx, preprocessor_hgbc, train_matrix, test_matrix,
                 fitted, clf_hgbc_test, models_clf_rf, ensemble_1,
                 clf_ensemble_1_test, encvars, votevars>>

\* line 180: the confusion matrix display
ConfusionMatrix ==
  /\ pc = "confusion"
  /\ "clf_hgbc" \in fitted
  /\ Advance("confusion")
  /\ UNCHANGED <<train_X, test_X, categorical_cols, numeric_cols,
                 categorical_cols_idx, preprocessor_hgbc, train_matrix, test_matrix,
                 fitted, clf_hgbc_test, models_clf_rf, ensemble_1,
                 clf_ensemble_1_test, files, encvars, votevars>>

\* lines 219-220: pickle.load of the saved models
LoadModels ==
  /\ Advance("load_models")
  /\ models_clf_rf' = {"clf_LR", "clf_RF"}
  /\ UNCHANGED <<train_X, test_X, categorical_cols, numeric_cols,
                 categorical_cols_idx, preprocessor_hgbc, train_matrix, test_matrix,
                 fitted, clf_hgbc_test, ensemble_1,
                 clf_ensemble_1_test, files, encvars, votevars>>

\* lines 251-254: the VotingClassifier
CreateEnsemble ==
  /\ pc = "create_ensemble"
  /\ {"clf_LR", "clf_RF"} \subseteq models_clf_rf
  /\ Advance("create_ensemble")
  /\ ensemble_1' = [estimators |-> Estimators, voting |-> "soft", weights |-> Weights]
  /\ UNCHANGED <<train_X, test_X, categorical_cols, numeric_cols,
                 categorical_cols_idx, preprocessor_hgbc, train_matrix, test_matrix,
                 fitted, clf_hgbc_test, models_clf_rf,
                 clf_ensemble_1_test, files, encvars, votevars>>

\* lines 257-258: ensemble_1.fit(train_X, train_y) fits a clone of every
\* member, and the training score
FitEnsemble ==
  /\ pc = "fit_ensemble"
  /\ ensemble_1.estimators # <<>>
  /\ Advance("fit_ensemble")
  /\ fitted' = fitted \cup {"ensemble_1"}
  /\ UNCHANGED <<train_X, test_X, categorical_cols, numeric_cols,
                 categorical_cols_idx, preprocessor_hgbc, train_matrix, test_matrix,
                 clf_hgbc_test, models_clf_rf, ensemble_1,
                 clf_ensemble_1_test, files, encvars, votevars>>

\* line 261: ensemble_1.predict(test_X), a soft vote per row
PredictEnsemble ==
  /\ pc = "predict_ensemble"
  /\ "ensemble_1" \in fitted
  /\ Advance("predict_ensemble")
  /\ clf_ensemble_1_test' \in [1..Len(test_X.id) -> VotableLabels]
  /\ UNCHANGED <<train_X, test_X, categorical_cols, numeric_cols,
                 categorical_cols_idx, preprocessor_hgbc, train_matrix, test_matrix,
                 fitted, clf_hgbc_test, models_clf_rf, ensemble_1,
                 files, encvars, votevars>>

\* lines 264-268: the second submission
WriteEnsemble ==
  /\ pc = "write_ensemble"
  /\ Len(clf_ensemble_1_test) = Len(test_X.id)
  /\ Advance("write_ensemble")
  /\ files' = [files EXCEPT ![EnsemblePath] =
                 SubmissionCsv(test_X.id, clf_ensemble_1_test)]
  /\ UNCHANGED <<train_X, test_X, categorical_cols, numeric_cols,
                 categorical_cols_idx, preprocessor_hgbc, train_matrix, test_matrix,
                 fitted, clf_hgbc_test, models_clf_rf, ensemble_1,
                 clf_ensemble_1_test, encvars, votevars>>

\* a handler that runs the failed statement group again
FailWithRetry ==
  \/ /\ pc \in Fallible
     /\ pc' = "failed"
     /\ UNCHANGED <<stages, train_X, test_X, categorical_cols, numeric_cols,
                    categorical_cols_idx, preprocessor_hgbc, train_matrix,
                    test_matrix, fitted, clf_hgbc_test, models_clf_rf, ensemble_1,
                    clf_ensemble_1_test, files, encvars, votevars>>
  \/ /\ pc = "failed"
     /\ pc' = StageOrder[Len(stages) + 1]
     /\ UNCHANGED <<stages, train_X, test_X, categorical_cols, numeric_cols,
                    categorical_cols_idx, preprocessor_hgbc, train_matrix,
                    test_matrix, fitted, clf_hgbc_test, models_clf_rf, ensemble_1,
                    clf_ensemble_1_test, files, encvars, votevars>>

\* an exception in a statement group: nothing catches it and the run ends
\* there, with the variables and the files as the earlier statements left them
Fail ==
  /\ pc \in Fallible
  /\ pc' = "failed"
  /\ UNCHANGED <<stages, train_X, test_X, categorical_cols, numeric_cols,
                 categorical_cols_idx, preprocessor_hgbc, train_matrix, test_matrix,
                 fitted, clf_hgbc_test, models_clf_rf, ensemble_1,
                 clf_ensemble_1_test, files, encvars, votevars>>

Next ==
  \/ LoadData \/ Partition \/ BuildPipeline \/ FitHgbc \/ PredictHgbc
  \/ WriteHgbc \/ ConfusionMatrix \/ LoadModels \/ CreateEnsemble
  \/ FitEnsemble \/ PredictEnsemble \/ WriteEnsemble \/ Fail

Spec == Init /\ [][Next]_vars

\* ------------------------------------------------------------- the encoder alone
\* One categorical column through clf_hgbc.fit (line 143) and
\* clf_hgbc.predict (line 147).
CategoryColumns == [1..NRows -> Range(Lex)]

InitEncoder ==
  /\ pc = "idle" /\ IdleNotebook /\ IdleVote
  /\ enc_pc = "fit"
  /\ enc_train \in CategoryColumns
  /\ enc_test \in CategoryColumns
  /\ categories_ = <<>> /\ enc_train_out = <<>> /\ enc_test_out = <<>>

\* the encoder's fit_transform inside Pipeline.fit
EncoderFit ==
  /\ enc_pc = "fit"
  /\ categories_' = FitCategories(enc_train)
  /\ enc_train_out' = categorical_transformer_hgbc(categories_', enc_train)
  /\ enc_pc' = "transform"
  /\ UNCHANGED <<wfvars, votevars, enc_train, enc_test, enc_test_out>>

\* the encoder's transform inside Pipeline.predict; an error ends the run
EncoderTransform ==
  /\ enc_pc = "transform"
  /\ LET out == categorical_transformer_hgbc(categories_, enc_test)
     IN IF Raise \in Range(out)
        THEN enc_pc' = "failed" /\ enc_test_out' = <<>>
        ELSE enc_pc' = "done" /\ enc_test_out' = out
  /\ UNCHANGED <<wfvars, votevars, enc_train, enc_test, categories_, enc_train_out>>

NextEncoder == EncoderFit \/ EncoderTransform

SpecEncoder == InitEncoder /\ [][NextEncoder]_vars

\* ------------------------------------------------------------- the vote alone
\* ensemble_1.predict (line 261) on one row, over all three class labels.
InitVote ==
  /\ pc = "idle" /\ IdleNotebook /\ IdleEncoder
  /\ vote_pc = "predict"
  /\ probas \in MemberProbas(Len(AllClasses))
  /\ y_pred = ""

VoteRow ==
  /\ vote_pc = "predict"
  /\ y_pred' = VotePredict(probas, Weights, AllClasses)
  /\ vote_pc' = "done"
  /\ UNCHANGED <<wfvars, encvars, probas>>

NextVote == VoteRow

SpecVote == InitVote /\ [][NextVote]_vars

\* ------------------------------------------------------------- properties
Completed(stage) == stage \in Range(stages)
PosIn(df, name) == CHOOSE i \in DOMAIN df.columns : df.columns[i] = name
Passthrough(df) ==
  {c \in Range(df.columns) : c \notin Range(categorical_cols) \cup Range(numeric_cols)}
Written == {f \in DOMAIN files : files[f].exists}

\* the matrix m is [categorical_cols][numeric_cols][passthrough columns of df
\* in df's order] and has no other column
LaidOutInBlocks(m, df) ==
  LET nc == Len(categorical_cols)
      nm == Len(numeric_cols)
  IN /\ Len(m) = nc + nm + Cardinality(Passthrough(df))
     /\ \A k \in 1..nc :
          m[k].name = categorical_cols[k] /\ m[k].block = "cat"
     /\ \A k \in 1..nm :
          m[nc + k].name = numeric_cols[k] /\ m[nc + k].block = "num"
     /\ \A k \in (nc + nm + 1)..Len(m) :
          m[k].name \in Passthrough(df) /\ m[k].block = "remainder"
     /\ \A a, b \in (nc + nm + 1)..Len(m) :
          a < b => PosIn(df, m[a].name) < PosIn(df, m[b].name)

\* C1: the matrix the preprocessor produces from the training table (in fit)
\* and from the inference table (in predict) has |C| + |M| + |P| columns: the
\* categorical columns in their original relative order, then the numeric
\* columns, then the passthrough columns.
C1_BlockLayout ==
  /\ Completed("fit") => LaidOutInBlocks(train_matrix, train_X)
  /\ Completed("predict") => LaidOutInBlocks(test_matrix, test_X)

\* C1 witness: a fitted run on a table with all three kinds of column, not
\* already in block order, whose inference table has been transformed.
C1_Witness ==
  /\ Completed("predict")
  /\ categorical_cols # <<>> /\ numeric_cols # <<>> /\ Passthrough(train_X) # {}
  /\ [k \in DOMAIN train_matrix |-> train_matrix[k].name] # train_X.columns

\* C2: the index list given to the classifier is [0, ..., |C|-1], and the
\* indices are exactly the positions (from 0) of the categorical columns in
\* the transformed matrix, wherever those columns sit in the input table.
C2_IndexList ==
  /\ Completed("build") =>
       /\ Len(categorical_cols_idx) = Len(categorical_cols)
       /\ \A i \in DOMAIN categorical_cols_idx : categorical_cols_idx[i] = i - 1
  /\ Completed("fit") =>
       /\ \A i \in DOMAIN categorical_cols_idx :
            /\ categorical_cols_idx[i] + 1 \in DOMAIN train_matrix
            /\ train_matrix[categorical_cols_idx[i] + 1].name \in Range(categorical_cols)
            /\ train_matrix[categorical_cols_idx[i] + 1].dtype = "object"
       /\ \A j \in DOMAIN train_matrix :
            train_matrix[j].name \in Range(categorical_cols)
              => j - 1 \in Range(categorical_cols_idx)

\* C2 witness: categorical columns at input positions 0 and 2, a numeric
\* column at position 1, and the index list [0, 1].
C2_Witness ==
  /\ Completed("fit")
  /\ train_X.dtypes[1] = "object" /\ train_X.dtypes[2] = "int64"
  /\ train_X.dtypes[3] = "object"
  /\ categorical_cols_idx = <<0, 1>>

\* C3: categorical_cols holds exactly the object columns and numeric_cols
\* exactly the number columns of the table, each in the table's column order;
\* the lists are disjoint and a column of another dtype is in neither.
C3_Partition ==
  Completed("partition") =>
    /\ \A i \in DOMAIN train_X.columns :
         /\ train_X.columns[i] \in Range(categorical_cols)
              <=> train_X.dtypes[i] = "object"
         /\ train_X.columns[i] \in Range(numeric_cols)
              <=> train_X.dtypes[i] \in {"int64", "float64"}
    /\ Range(categorical_cols) \cap Range(numeric_cols) = {}
    /\ \A a, b \in DOMAIN categorical_cols :
         a < b => PosIn(train_X, categorical_cols[a]) < PosIn(train_X, categorical_cols[b])
    /\ \A a, b \in DOMAIN numeric_cols :
         a < b => PosIn(train_X, numeric_cols[a]) < PosIn(train_X, numeric_cols[b])

\* C3 witness: a partitioned table with an object, a number and a bool column.
C3_Witness ==
  /\ Completed("partition")
  /\ categorical_cols # <<>> /\ numeric_cols # <<>>
  /\ \E i \in DOMAIN train_X.columns :
       /\ train_X.dtypes[i] = "bool"
       /\ train_X.columns[i] \notin Range(categorical_cols) \cup Range(numeric_cols)

BlockNames(m, block) ==
  {m[k].name : k \in {j \in DOMAIN m : m[j].block = block}}

\* C4: the two column lists change only in the statement that computes them
\* from the training table, and the transforms in fit and in predict use the
\* lists computed from the training table, also when the inference table's
\* dtypes differ.
C4_PartitionOnce ==
  [][/\ <<categorical_cols, numeric_cols>>' # <<categorical_cols, numeric_cols>>
          => pc = "partition"
     /\ (Completed("partition"))' =>
          /\ categorical_cols' = select_dtypes(train_X', {"object"})
          /\ numeric_cols' = select_dtypes(train_X', {"int64", "float64"})
     /\ (Completed("fit"))' =>
          /\ BlockNames(train_matrix', "cat") = Range(categorical_cols')
          /\ BlockNames(train_matrix', "num") = Range(numeric_cols')
     /\ (Completed("predict"))' =>
          /\ BlockNames(test_matrix', "cat") = Range(categorical_cols')
          /\ BlockNames(test_matrix', "num") = Range(numeric_cols')]_vars

\* C4 witness: predict has run on an inference table whose own dtypes would
\* give other column lists.
C4_Witness ==
  /\ Completed("predict")
  /\ select_dtypes(test_X, {"object"}) # categorical_cols
  /\ select_dtypes(test_X, {"int64", "float64"}) # numeric_cols

\* C5: transforming an inference column never raises; a value that did not
\* occur in the training column is encoded as NaN, and a value that did
\* occur gets the integer code it has in the encoded training column.
C5_UnseenIsNaN ==
  /\ enc_pc # "failed"
  /\ enc_pc = "done" =>
       /\ Len(enc_test_out) = Len(enc_test)
       /\ \A i \in DOMAIN enc_test :
            /\ enc_test[i] \notin Range(enc_train) => enc_test_out[i] = NaN
            /\ \A j \in DOMAIN enc_train :
                 enc_test[i] = enc_train[j] =>
                   /\ enc_test_out[i] = enc_train_out[j]
                   /\ enc_test_out[i][1] = "code"

\* C5 witness: a transformed inference column with one unseen value and one
\* value seen in training.
C5_Witness ==
  /\ enc_pc = "done"
  /\ \E i \in DOMAIN enc_test : enc_test[i] \notin Range(enc_train)
  /\ \E i \in DOMAIN enc_test : enc_test[i] \in Range(enc_train)
  /\ Cardinality(Range(enc_train)) > 1

MeanTimes3(c) == probas[1][c] + probas[2][c] + probas[3][c]
ClassIndex(label) == CHOOSE k \in DOMAIN AllClasses : AllClasses[k] = label

\* C6: the predicted label is a class whose mean of the three members'
\* probabilities is maximal (the means are compared as their threefold, the
\* sums), and every class that sorts before it has a smaller mean.
C6_SoftVote ==
  vote_pc = "done" =>
    /\ y_pred \in Range(AllClasses)
    /\ \A c \in DOMAIN AllClasses : MeanTimes3(c) <= MeanTimes3(ClassIndex(y_pred))
    /\ \A c \in DOMAIN AllClasses :
         c < ClassIndex(y_pred) => MeanTimes3(c) < MeanTimes3(ClassIndex(y_pred))

\* C6 witness: a vote in which two classes share the maximal mean and the
\* members do not agree.
C6_Witness ==
  /\ vote_pc = "done"
  /\ probas[1] # probas[2]
  /\ \E c, d \in DOMAIN AllClasses :
       /\ c < d /\ MeanTimes3(c) = MeanTimes3(d)
       /\ \A e \in DOMAIN AllClasses : MeanTimes3(e) <= MeanTimes3(c)

SubmissionOf(file, preds) ==
  /\ file.exists
  /\ file.columns = <<"id", "status_group">>
  /\ Len(file.rows) = Len(test_X.id)
  /\ \A i \in DOMAIN test_X.id : file.rows[i] = <<test_X.id[i], preds[i]>>

\* C7: a submission that has been written has the columns id and
\* status_group only, one row per inference row, and row i holds the id and
\* the prediction of inference row i.
C7_Submission ==
  /\ Completed("write") => SubmissionOf(files[HgbcPath], clf_hgbc_test)
  /\ Completed("write_ensemble") =>
       SubmissionOf(files[EnsemblePath], clf_ensemble_1_test)

\* C7 witness: both submissions written, for ids that are not in ascending
\* order and predictions that differ between rows and between classifiers.
C7_Witness ==
  /\ pc = "done"
  /\ test_X.id[1] > test_X.id[2]
  /\ clf_hgbc_test[1] # clf_hgbc_test[2]
  /\ clf_hgbc_test # clf_ensemble_1_test

\* C8 as stated: a complete run has written exactly one output file.
C8_OneFile == pc = "done" => Cardinality(Written) = 1

\* C8 amended: a complete run has written exactly two output files, the
\* boosted-tree submission and the ensemble submission.
C8_TwoFiles ==
  pc = "done" =>
    /\ Cardinality(Written) = 2
    /\ "./output/hgbc_1_submission.csv" \in Written
    /\ "./output/clf_ensemble_1_submission.csv" \in Written

\* C8 witness: a complete run.
C8_Witness == pc = "done" /\ Completed("write_ensemble")

\* C9 as stated: a run that has failed has written no output file.
C9_NoOutputOnFailure == pc = "failed" => Written = {}

\* C9 amended: after a failure no statement runs; a run that failed before
\* the first submission was being written has no output file, and a run that
\* failed after the first submission was written still has that file,
\* complete.
C9_FailureIsFinal ==
  pc = "failed" =>
    /\ ~ENABLED Next
    /\ ~Completed("predict") => Written = {}
    /\ Completed("write") => SubmissionOf(files[HgbcPath], clf_hgbc_test)

\* C9 witness: a run that failed in the ensemble cells, after the first
\* submission was written.
C9_Witness ==
  /\ pc = "failed"
  /\ Completed("load_models") /\ ~Completed("predict_ensemble")
  /\ Written = {HgbcPath}

\* C10 as stated: no submission is on disk before the ensemble combination
\* has been performed.
C10_NoWriteBeforeCombine ==
  Written # {} => Completed("predict_ensemble")

\* C10 amended: the statement groups run once each in the notebook's order
\* (load, partition, build, fit, predict, write, confusion matrix, load the
\* models, create, fit and predict the ensemble, write); predictions exist
\* only from fitted classifiers; the ensemble submission is on disk only
\* after the combination, the boosted-tree submission only after its
\* prediction.
C10_StageOrder ==
  /\ stages = SubSeq(<<"load", "partition", "build", "fit", "predict", "write",
                       "confusion", "load_models", "create_ensemble",
                       "fit_ensemble", "predict_ensemble", "write_ensemble">>,
                     1, Len(stages))
  /\ pc \notin {"idle", "failed", "done"} =>
       pc = <<"load", "partition", "build", "fit", "predict", "write",
              "confusion", "load_models", "create_ensemble",
              "fit_ensemble", "predict_ensemble", "write_ensemble">>[Len(stages) + 1]
  /\ clf_hgbc_test # <<>> => "clf_hgbc" \in fitted /\ Completed("fit")
  /\ clf_ensemble_1_test # <<>> => "ensemble_1" \in fitted /\ Completed("fit_ensemble")
  /\ files[HgbcPath].exists => Completed("predict")
  /\ files[EnsemblePath].exists => Completed("predict_ensemble")

\* C10 witness: the first submission is on disk and the ensemble has not
\* been combined yet.
C10_Witness ==
  /\ files[HgbcPath].exists
  /\ pc = "create_ensemble"
  /\ clf_ensemble_1_test = <<>>

====
